---- MODULE Spec2Model ----
(***************************************************************************)
(* Role-based-access-control RAG chatbot.                                  *)
(*   backend/app/data_loader.py   ingestion: walk the data root, tag,      *)
(*                                chunk, rebuild the Chroma directory      *)
(*   backend/app/rag_pipeline.py  query: policy lookup, filtered search,   *)
(*                                LLM call                                 *)
(*   backend/app/auth.py, main.py the /api/chat request layer              *)
(***************************************************************************)
EXTENDS Integers, Sequences, FiniteSets, TLC

(***************************************************************************)
(* Bounds of the model.                                                    *)
(***************************************************************************)
\* query texts are 1..NumQueries
NumQueries == 1

(***************************************************************************)
(* Program constants.                                                      *)
(***************************************************************************)
\* rag_pipeline.py:111  "k": 5
TopK == 5
\* data_loader.py:106  chunk_size=1000
ChunkSize == 1000
\* data_loader.py:106  chunk_overlap=100
ChunkOverlap == 100

\* data_loader.py:30  DATA_PATH = PROJECT_ROOT / "data"
DATA_PATH == <<"data">>

\* rag_pipeline.py:105
DENIAL == "Your role does not have access to any data."

(***************************************************************************)
(* Access policy (rag_pipeline.py:41-48).                                  *)
(***************************************************************************)
\* Variant in which one entry lost the shared role.
MappingWithoutGeneral ==
  [ c_level     |-> {"c_level", "engineering", "marketing", "finance", "hr", "general"},
    engineering |-> {"engineering", "general"},
    marketing   |-> {"marketing", "general"},
    finance     |-> {"finance", "general"},
    hr          |-> {"hr"},
    employee    |-> {"general"} ]

InitialMapping ==
  [ c_level     |-> {"c_level", "engineering", "marketing", "finance", "hr", "general"},
    engineering |-> {"engineering", "general"},
    marketing   |-> {"marketing", "general"},
    finance     |-> {"finance", "general"},
    hr          |-> {"hr", "general"},
    employee    |-> {"general"} ]

\* Variant that treats an unknown caller role as entitled to everything.
AccessibleRolesFailOpen(m, user_role) ==
  IF user_role \in DOMAIN m THEN m[user_role] ELSE UNION {m[r] : r \in DOMAIN m}

\* ROLE_ACCESS_MAPPING.get(user_role, [])
AccessibleRoles(m, user_role) ==
  IF user_role \in DOMAIN m THEN m[user_role] ELSE {}

(***************************************************************************)
(* Mock user database (auth.py:11-18).                                     *)
(***************************************************************************)
MOCK_USERS ==
  [ tony_s        |-> [role |-> "c_level",     password |-> "password123"],
    peter_p       |-> [role |-> "engineering", password |-> "password123"],
    susan_m       |-> [role |-> "marketing",   password |-> "password123"],
    john_f        |-> [role |-> "finance",     password |-> "password123"],
    lisa_h        |-> [role |-> "hr",          password |-> "password123"],
    employee_user |-> [role |-> "employee",    password |-> "password123"] ]

(***************************************************************************)
(* The data root: files the operator may place under data/.                *)
(*   path   directories below the root that hold the file                  *)
(*   kind   the extension                                                  *)
(*   parses whether opening/loading the file succeeds                      *)
(*   units  the sections / pages / rows a successful parse yields          *)
(***************************************************************************)
File(path, name, kind, parses, units) ==
  [path |-> path, name |-> name, kind |-> kind, parses |-> parses, units |-> units]

Unit(text, len) == [text |-> text, len |-> len]

FinQ3 == File(<<"finance">>, "q3.md", "md", TRUE,
                   <<Unit("fin1", 400), Unit("fin2", 1500)>>)
HrStaff == File(<<"hr">>, "staff.csv", "csv", TRUE, <<Unit("hr1", 300)>>)
FinArchive == File(<<"finance", "archive">>, "old.csv", "csv", TRUE, <<Unit("arc1", 200)>>)
HrScan == File(<<"hr">>, "scan.pdf", "pdf", FALSE, <<>>)
GenLogo == File(<<"general">>, "logo.png", "png", TRUE, <<>>)
\* q3.md moved from finance/ to general/ (same content, new tag)
GenQ3 == File(<<"general">>, "q3.md", "md", TRUE,
                   <<Unit("fin1", 400), Unit("fin2", 1500)>>)

\* the order in which os.walk meets the files
FileOrder == <<GenLogo, GenQ3, FinQ3, HrScan, FinArchive, HrStaff>>

FileUniverse == {FileOrder[i] : i \in 1..Len(FileOrder)}

\* the contents the data root is given in this model
Corpora ==
  { {},
    {GenLogo},
    {FinQ3, HrStaff},
    {GenQ3, HrStaff},
    {FinQ3, HrScan, HrStaff},
    {FinArchive, GenLogo} }

\* os.walk(data_path): the files present, in walk order
Walk(corpus) == SelectSeq(FileOrder, LAMBDA f : f \in corpus)

\* immediate subdirectories of the data root
RootSubdirs(corpus) == {f.path[1] : f \in {g \in corpus : Len(g.path) >= 1}}

(***************************************************************************)
(* Document loading and role tagging (data_loader.py:37-84).               *)
(***************************************************************************)
Doc(text, len, source, role) ==
  [text |-> text, len |-> len, source |-> source, role |-> role]

\* os.path.join(dirpath, filename)
FilePath(f) == DATA_PATH \o f.path \o <<f.name>>

\* the immediate subdirectory of the data root that a directory lies in
\* ("" for the root itself)
TopLevelDirOf(dirpath) ==
  IF Len(dirpath) > Len(DATA_PATH) THEN dirpath[Len(DATA_PATH) + 1] ELSE ""

\* data_loader.py:77  role = pathlib.Path(dirpath).name
RoleOf(dirpath) == dirpath[Len(dirpath)]

\* data_loader.py:49-74: what one file yields before tagging.
\*   raised  the open()/loader.load() call threw
\*   docs    the units, with the source each loader records
LoadFile(f) ==
  IF f.kind = "md"
    THEN IF ~f.parses
           THEN [raised |-> TRUE, docs |-> <<>>]
           ELSE [raised |-> FALSE,
                 docs |-> [i \in 1..Len(f.units) |->
                            Doc(f.units[i].text, f.units[i].len, <<f.name>>, "")]]
  ELSE IF f.kind \in {"pdf", "csv"}
    THEN IF ~f.parses
           THEN [raised |-> TRUE, docs |-> <<>>]
           ELSE [raised |-> FALSE,
                 docs |-> [i \in 1..Len(f.units) |->
                            Doc(f.units[i].text, f.units[i].len, FilePath(f), "")]]
  ELSE [raised |-> FALSE, docs |-> <<>>]

\* data_loader.py:76-81: stamp the role on every unit of the file
TagDocs(docs, role) ==
  [i \in 1..Len(docs) |-> [docs[i] EXCEPT !.role = role]]

\* data_loader.py:42-84: the walk; an exception leaves the function at once
RECURSIVE LoadAll(_, _)
LoadAll(files, all_docs) ==
  IF files = <<>> THEN [raised |-> FALSE, docs |-> all_docs]
  ELSE LET f == Head(files)
           r == LoadFile(f)
       IN IF r.raised THEN [raised |-> TRUE, docs |-> <<>>]
          ELSE LoadAll(Tail(files),
                 all_docs \o TagDocs(r.docs, RoleOf(DATA_PATH \o f.path)))

get_documents_from_path(corpus) == LoadAll(Walk(corpus), <<>>)

(***************************************************************************)
(* Chunking (data_loader.py:106-107).                                      *)
(***************************************************************************)
Chunk(text, role, source) == [text |-> text, role |-> role, source |-> source]

\* the windows of a text of length len, from offset start on
RECURSIVE Windows(_, _)
Windows(len, start) ==
  IF len - start <= ChunkSize THEN <<<<start, len>>>>
  ELSE <<<<start, start + ChunkSize>>>> \o Windows(len, start + ChunkSize - ChunkOverlap)

\* Variant in which only the first window keeps the document's metadata.
SplitOneFirstOnly(doc) ==
  LET w == Windows(doc.len, 0)
  IN [i \in 1..Len(w) |->
       IF i = 1 THEN Chunk(<<doc.text, w[i][1], w[i][2]>>, doc.role, doc.source)
                ELSE Chunk(<<doc.text, w[i][1], w[i][2]>>, "", <<>>)]

\* one document: each window keeps the document's metadata
SplitOne(doc) ==
  LET w == Windows(doc.len, 0)
  IN [i \in 1..Len(w) |-> Chunk(<<doc.text, w[i][1], w[i][2]>>, doc.role, doc.source)]

RECURSIVE split_documents(_)
split_documents(docs) ==
  IF docs = <<>> THEN <<>>
  ELSE SplitOne(Head(docs)) \o split_documents(Tail(docs))

(***************************************************************************)
(* Embedding and filtered similarity search.                               *)
(***************************************************************************)
\* the subject each unit of text is about
Topic == [fin1 |-> 1, fin2 |-> 1, arc1 |-> 1, hr1 |-> 2]

\* embeddings.embed_documents: a deterministic point for a chunk's text
Embed(text) == Topic[text[1]] * 100 + text[2] \div 100

\* embeddings.embed_query: query q is about subject q
QueryEmbed(q) == q * 100

Distance(a, b) == IF a >= b THEN a - b ELSE b - a

\* Variant with no metadata filter on the search.
MatchesAnything(rec, filter) == TRUE

\* rag_pipeline.py:112  "filter": {"role": {"$in": accessible_roles}}
MatchesFilter(rec, filter) == rec.role \in filter

\* the k nearest of the candidate records, nearest first, ties by position
RECURSIVE Nearest(_, _, _, _)
Nearest(coll, cand, qv, k) ==
  IF k = 0 \/ cand = {} THEN <<>>
  ELSE LET d(i) == Distance(Embed(coll[i].text), qv)
           best == CHOOSE i \in cand :
                     \A j \in cand : d(i) < d(j) \/ (d(i) = d(j) /\ i <= j)
       IN <<coll[best]>> \o Nearest(coll, cand \ {best}, qv, k - 1)

\* rag_pipeline.py:108-114: similarity search restricted by the filter
Search(coll, q, k, filter) ==
  Nearest(coll, {i \in 1..Len(coll) : MatchesFilter(coll[i], filter)}, QueryEmbed(q), k)

(***************************************************************************)
(* get_rag_response (rag_pipeline.py:91-127) as a function of its inputs   *)
(* and of what the providers do.                                           *)
(*   view     what the Chroma handle shows: [ok, coll]                     *)
(*   embedOk  the embedding / vector search call succeeds                  *)
(*   llmOk    the LLM call succeeds                                        *)
(***************************************************************************)
NoView == [ok |-> FALSE, coll |-> <<>>]

NoAnswer == [kind |-> "none",      text |-> "",     query |-> 0, context |-> <<>>]
DenialAnswer == [kind |-> "fixed",     text |-> DENIAL, query |-> 0, context |-> <<>>]
\* llm | StrOutputParser(): text the model writes from the prompt
Generated(q, ctx) ==
  [kind |-> "generated", text |-> "", query |-> q, context |-> ctx]

Result(outcome, answer, failed, searched, llm, filter, context, seen) ==
  [outcome |-> outcome, answer |-> answer, failed |-> failed, searched |-> searched,
   llm |-> llm, filter |-> filter, context |-> context, seen |-> seen]

\* Variant that catches the provider's exception and answers with the denial.
SwallowedAsDenial(failed, searched, llm, filter, context, seen) ==
  Result("returned", DenialAnswer, failed, searched, llm, filter, context, seen)

\* rag_pipeline.py:125: rag_chain.invoke is not wrapped; an exception leaves
\* get_rag_response
Raised(failed, searched, llm, filter, context, seen) ==
  Result("raised", NoAnswer, failed, searched, llm, filter, context, seen)

\* rag_pipeline.py:104  if not accessible_roles
NoAccess(accessible_roles) == accessible_roles = {}

get_rag_response(m, query, user_role, view, embedOk, llmOk) ==
  LET accessible_roles == AccessibleRoles(m, user_role)
  IN IF NoAccess(accessible_roles)
       THEN Result("returned", DenialAnswer, "none", FALSE, FALSE, {}, <<>>, NoView)
     ELSE IF ~embedOk \/ ~view.ok
       THEN Raised("retrieval", TRUE, FALSE, accessible_roles, <<>>, NoView)
     ELSE LET ctx == Search(view.coll, query, TopK, accessible_roles)
          IN IF ~llmOk
               THEN Raised("llm", TRUE, TRUE, accessible_roles, ctx, view)
               ELSE Result("returned", Generated(query, ctx), "none", TRUE, TRUE,
                           accessible_roles, ctx, view)

NoResult == Result("none", NoAnswer, "none", FALSE, FALSE, {}, <<>>, NoView)

(***************************************************************************)
(* Authentication (auth.py:34-60).                                         *)
(***************************************************************************)
\* Variant that accepts any password of a known user.
get_current_user_no_password(username, password) ==
  IF username \notin DOMAIN MOCK_USERS
    THEN [ok |-> FALSE, username |-> username, role |-> ""]
    ELSE [ok |-> TRUE, username |-> username, role |-> MOCK_USERS[username].role]

get_current_user(username, password) ==
  IF username \notin DOMAIN MOCK_USERS \/ MOCK_USERS[username].password # password
    THEN [ok |-> FALSE, username |-> username, role |-> ""]
    ELSE [ok |-> TRUE, username |-> username, role |-> MOCK_USERS[username].role]

(***************************************************************************)
(* State.                                                                  *)
(*   ROLE_ACCESS_MAPPING  the module-level policy dictionary               *)
(*   corpus   the files under the data root                                *)
(*   disk     the chroma_db directory: [state, coll]                       *)
(*              state "missing" | "unreadable" | "present"                 *)
(*              coll  the records of collection finsolve_chatbot           *)
(*   ing      the ingest_data run: position, the directory it found,       *)
(*            what it walked and loaded, its chunks, how it ended          *)
(*   srv      the query-serving process and its Chroma handle              *)
(*   last     the request just handled, until its response is delivered,   *)
(*            with the position the ingest_data run was in at that moment  *)
(***************************************************************************)
VARIABLES ROLE_ACCESS_MAPPING, corpus, disk, ing, srv, last

vars == <<ROLE_ACCESS_MAPPING, corpus, disk, ing, srv, last>>

Missing == [state |-> "missing", coll |-> <<>>]
Unreadable == [state |-> "unreadable", coll |-> <<>>]
Present(coll) == [state |-> "present", coll |-> coll]

NoLoad == [raised |-> FALSE, docs |-> <<>>]

IngIdle ==
  [pc |-> "idle", before |-> Missing, walked |-> {}, loaded |-> NoLoad,
   chunks |-> <<>>, outcome |-> "none", after |-> Missing]

SrvDown(why) ==
  [up |-> FALSE, exit |-> why, stale |-> FALSE, snap |-> NoView,
   startCount |-> 0, warned |-> FALSE]

NoRequest ==
  [via |-> "none", username |-> "", password |-> "", user_role |-> "", query |-> 0,
   status |-> "", rag |-> NoResult, ing |-> IngIdle]

CallerRoles == DOMAIN InitialMapping \cup {"intern"}
Usernames == DOMAIN MOCK_USERS \cup {"mallory"}
Passwords == {"password123", "letmein"}
Queries == 1..NumQueries

Init ==
  /\ ROLE_ACCESS_MAPPING = InitialMapping
  /\ corpus \in Corpora
  /\ disk = Missing
  /\ ing = IngIdle
  /\ srv = SrvDown("")
  /\ last = NoRequest

\* a response is handed to its caller before anything else is looked at;
\* every handler below is one step, so no interleaving is lost by this
Quiet == last.via = "none"

(***************************************************************************)
(* The operator rewrites the data root.  A run reads the data root in one  *)
(* step (IngestLoad), so a rewrite during a run acts like one just before  *)
(* or just after it; only those are taken.                                 *)
(***************************************************************************)
ReplaceCorpus(c) ==
  /\ Quiet
  /\ ing.pc = "idle"
  /\ c # corpus
  /\ corpus' = c
  /\ UNCHANGED <<ROLE_ACCESS_MAPPING, disk, ing, srv, last>>

\* the chroma_db directory becomes unreadable (damaged files, permissions)
DamageIndex ==
  /\ Quiet
  /\ disk.state = "present"
  /\ disk' = Unreadable
  /\ UNCHANGED <<ROLE_ACCESS_MAPPING, corpus, ing, srv, last>>

(***************************************************************************)
(* ingest_data (data_loader.py:87-128), one action per step that another   *)
(* process can observe.                                                    *)
(***************************************************************************)
LiveView(d) == IF d.state = "present" THEN [ok |-> TRUE, coll |-> d.coll] ELSE NoView

\* Variant that keeps the existing directory.
KeepDirectory(d) == d

\* data_loader.py:93-95  if os.path.exists(...): shutil.rmtree(...)
RemoveDirectory(d) == IF d.state # "missing" THEN Missing ELSE d

\* data_loader.py:91-95.  A handle opened before the removal keeps showing
\* what the removed files held, or fails.
IngestStart ==
  /\ Quiet
  /\ ing.pc = "idle"
  /\ ing' = [IngIdle EXCEPT !.pc = "cleared", !.before = disk]
  /\ disk' = RemoveDirectory(disk)
  /\ srv' = IF srv.up /\ ~srv.stale /\ disk.state # "missing"
              THEN [srv EXCEPT !.stale = TRUE, !.snap = LiveView(disk)]
              ELSE srv
  /\ UNCHANGED <<ROLE_ACCESS_MAPPING, corpus, last>>

\* data_loader.py:97-108
IngestLoad ==
  /\ Quiet
  /\ ing.pc = "cleared"
  /\ LET r == get_documents_from_path(corpus)
     IN ing' = IF r.raised
                 THEN [ing EXCEPT !.pc = "idle", !.walked = corpus, !.loaded = r,
                                  !.outcome = "raised", !.after = disk]
               ELSE IF r.docs = <<>>
                 THEN [ing EXCEPT !.pc = "idle", !.walked = corpus, !.loaded = r,
                                  !.outcome = "no documents", !.after = disk]
               ELSE [ing EXCEPT !.pc = "loaded", !.walked = corpus, !.loaded = r,
                                !.chunks = split_documents(r.docs)]
  /\ UNCHANGED <<ROLE_ACCESS_MAPPING, corpus, disk, srv, last>>

\* data_loader.py:110-114  chromadb.PersistentClient(path=...) creates the
\* directory when it is not there
IngestConnect ==
  /\ Quiet
  /\ ing.pc = "loaded"
  /\ IF disk.state = "unreadable"
       THEN /\ ing' = [ing EXCEPT !.pc = "idle", !.outcome = "raised", !.after = disk]
            /\ disk' = disk
       ELSE /\ ing' = [ing EXCEPT !.pc = "connected"]
            /\ disk' = IF disk.state = "missing" THEN Present(<<>>) ELSE disk
  /\ UNCHANGED <<ROLE_ACCESS_MAPPING, corpus, srv, last>>

\* data_loader.py:116-128  Chroma.from_documents: get or create the
\* collection, embed the chunks and add them to it
IngestUpload(embedOk) ==
  /\ Quiet
  /\ ing.pc = "connected"
  /\ IF disk.state # "present" \/ ~embedOk
       THEN /\ ing' = [ing EXCEPT !.pc = "idle", !.outcome = "raised", !.after = disk]
            /\ disk' = disk
       ELSE /\ disk' = Present(disk.coll \o ing.chunks)
            /\ ing' = [ing EXCEPT !.pc = "idle", !.outcome = "complete",
                                  !.after = disk']
  /\ UNCHANGED <<ROLE_ACCESS_MAPPING, corpus, srv, last>>

(***************************************************************************)
(* The query-serving process: module start-up of rag_pipeline.py, then     *)
(* requests.                                                               *)
(***************************************************************************)
\* rag_pipeline.py:16-74.  Chroma(persist_directory=...) creates the directory
\* and the collection when they are not there; an empty collection is warned
\* about (lines 64-66) and start-up goes on.
ServerStart(hasKey) ==
  /\ Quiet
  /\ ~srv.up
  /\ IF ~hasKey
       THEN /\ srv' = SrvDown("exit()")
            /\ disk' = disk
     ELSE IF disk.state = "unreadable"
       THEN /\ srv' = SrvDown("exit()")
            /\ disk' = disk
     ELSE LET opened == IF disk.state = "missing" THEN Present(<<>>) ELSE disk
              count  == Len(opened.coll)
          IN /\ disk' = opened
             /\ srv' = [up |-> TRUE, exit |-> "", stale |-> FALSE,
                         snap |-> NoView, startCount |-> count,
                         warned |-> (count = 0)]
  /\ UNCHANGED <<ROLE_ACCESS_MAPPING, corpus, ing, last>>

\* the process is stopped (to be restarted after an ingestion)
ServerStop ==
  /\ Quiet
  /\ srv.up
  /\ srv' = SrvDown("")
  /\ UNCHANGED <<ROLE_ACCESS_MAPPING, corpus, disk, ing, last>>

\* what chroma_client can show a request
Views == IF srv.stale THEN {NoView, srv.snap} ELSE {LiveView(disk)}

\* a direct call of get_rag_response(query, user_role)
CallGetRagResponse(query, user_role, view, embedOk, llmOk) ==
  /\ Quiet
  /\ srv.up
  /\ last' = [via |-> "direct", username |-> "", password |-> "",
              user_role |-> user_role, query |-> query,
              status |-> "",
              rag |-> get_rag_response(ROLE_ACCESS_MAPPING, query, user_role,
                                       view, embedOk, llmOk),
              ing |-> ing]
  /\ UNCHANGED <<ROLE_ACCESS_MAPPING, corpus, disk, ing, srv>>

\* main.py:36-61  POST /api/chat
chat_with_bot(username, password, query, view, embedOk, llmOk) ==
  /\ Quiet
  /\ srv.up
  /\ LET current_user == get_current_user(username, password)
     IN IF ~current_user.ok
          THEN last' = [NoRequest EXCEPT !.via = "chat", !.username = username,
                                         !.password = password, !.query = query,
                                         !.status = "401 Unauthorized",
                                         !.ing = ing]
          ELSE LET r == get_rag_response(ROLE_ACCESS_MAPPING, query,
                                         current_user.role, view, embedOk, llmOk)
               IN last' = [via |-> "chat", username |-> username,
                           password |-> password,
                           user_role |-> current_user.role, query |-> query,
                           status |-> IF r.outcome = "raised"
                                        THEN "500 Internal Server Error"
                                        ELSE "200 OK",
                           rag |-> r, ing |-> ing]
  /\ UNCHANGED <<ROLE_ACCESS_MAPPING, corpus, disk, ing, srv>>

\* the response reaches its caller
Deliver ==
  /\ ~Quiet
  /\ last' = NoRequest
  /\ UNCHANGED <<ROLE_ACCESS_MAPPING, corpus, disk, ing, srv>>

Next ==
  \/ \E c \in Corpora : ReplaceCorpus(c)
  \/ DamageIndex
  \/ IngestStart
  \/ IngestLoad
  \/ IngestConnect
  \/ \E embedOk \in BOOLEAN : IngestUpload(embedOk)
  \/ \E hasKey \in BOOLEAN : ServerStart(hasKey)
  \/ ServerStop
  \/ \E q \in Queries, r \in CallerRoles, v \in Views, e \in BOOLEAN, l \in BOOLEAN :
       CallGetRagResponse(q, r, v, e, l)
  \/ \E u \in Usernames, p \in Passwords, q \in Queries, v \in Views,
        e \in BOOLEAN, l \in BOOLEAN :
       chat_with_bot(u, p, q, v, e, l)
  \/ Deliver

Spec == Init /\ [][Next]_vars

(***************************************************************************)
(* Properties.                                                             *)
(***************************************************************************)
Range(seq) == {seq[i] : i \in 1..Len(seq)}

\* the request just handled went through get_rag_response
RagCalled == last.rag.outcome # "none"

\* the records of coll nearest to query q, whatever their role
NearestOverall(coll, q) ==
  {i \in 1..Len(coll) :
     \A j \in 1..Len(coll) :
       Distance(Embed(coll[i].text), QueryEmbed(q))
         <= Distance(Embed(coll[j].text), QueryEmbed(q))}

\* C1 (zero leakage): every chunk handed to the generator as context, and
\* every chunk the generated answer is built from, carries a role that is in
\* ROLE_ACCESS_MAPPING[caller role].
C1_ZeroLeakage ==
  RagCalled =>
    /\ \A c \in Range(last.rag.context) :
         c.role \in AccessibleRoles(ROLE_ACCESS_MAPPING, last.user_role)
    /\ \A c \in Range(last.rag.answer.context) :
         c.role \in AccessibleRoles(ROLE_ACCESS_MAPPING, last.user_role)

\* an answer was generated from a non-empty context although every nearest
\* neighbour of the query in the whole collection is tagged with a role the
\* caller may not read
C1_Witness ==
  /\ last.rag.answer.kind = "generated"
  /\ last.rag.context # <<>>
  /\ \A i \in NearestOverall(last.rag.seen.coll, last.query) :
       last.rag.seen.coll[i].role
         \notin AccessibleRoles(ROLE_ACCESS_MAPPING, last.user_role)
  /\ \E c \in Range(last.rag.seen.coll) :
       c.role \notin AccessibleRoles(ROLE_ACCESS_MAPPING, last.user_role)

\* C2 (fail closed): a call of get_rag_response with a caller role that is no
\* key of ROLE_ACCESS_MAPPING returns the fixed denial answer and performs no
\* vector search (so no search with an empty filter) and no LLM call.
C2_FailClosed ==
  (RagCalled /\ last.user_role \notin DOMAIN ROLE_ACCESS_MAPPING) =>
    /\ last.rag.outcome = "returned"
    /\ last.rag.answer = DenialAnswer
    /\ last.rag.answer.text = "Your role does not have access to any data."
    /\ ~last.rag.searched
    /\ ~last.rag.llm
    /\ last.rag.context = <<>>

\* get_rag_response was called with the unknown role "intern" over a
\* collection that holds records
C2_Witness ==
  /\ RagCalled
  /\ last.user_role = "intern"
  /\ last.rag.answer = DenialAnswer
  /\ disk.state = "present" /\ disk.coll # <<>>

\* C3 (empty corpus keeps the prior index): when a run of ingest_data finds no
\* documents and aborts, the collection that was persisted before the run is
\* still there with the same contents.
C3_PriorIndexUntouched ==
  (ing.outcome = "no documents" /\ ing.before.state = "present"
     /\ ing.before.coll # <<>>)
    => ing.after = ing.before

\* C4 (no partial view): a retrieval made while a run of ingest_data is under
\* way, over a good earlier collection, is shown that whole earlier collection
\* or the whole new one, never a missing, empty or half-filled one.
C4_NoPartialView ==
  (/\ RagCalled /\ last.rag.searched /\ last.rag.failed # "retrieval"
   /\ last.ing.pc # "idle"
   /\ last.ing.before.state = "present" /\ last.ing.before.coll # <<>>)
    => \/ last.rag.seen.coll = last.ing.before.coll
       \/ /\ last.ing.chunks # <<>>
          /\ last.rag.seen.coll = last.ing.chunks

\* the units a file holds when it can be parsed and its kind is recognized
ParseableUnits(f) ==
  IF f.parses /\ f.kind \in {"md", "pdf", "csv"} THEN Range(f.units) ELSE {}

\* C5 (one bad file does not abort the batch): the walk of the data root
\* yields the units of every parseable file, whether or not another file
\* failed to load.
C5_BadFileSkipped ==
  /\ ~ing.loaded.raised
  /\ \A f \in ing.walked : \A u \in ParseableUnits(f) :
       \E d \in Range(ing.loaded.docs) : d.text = u.text

\* C6 (role tagging): every unit produced from a file anywhere below an
\* immediate subdirectory R of the data root carries role R, and no unit
\* carries a role that is no immediate subdirectory of the root.
C6_RoleIsTopLevelDir ==
  \A d \in Range(ing.loaded.docs) :
    /\ d.role \in RootSubdirs(ing.walked)
    /\ \A f \in ing.walked :
         (\E x \in Range(LoadFile(f).docs) : x.text = d.text /\ x.source = d.source)
           => d.role = TopLevelDirOf(DATA_PATH \o f.path)

\* C7 (no serving on an empty or unreadable index): the process serves only
\* when the collection it opened at start-up held records, and
\* get_rag_response never generates an answer over an empty collection.
C7_NoServingOnEmptyIndex ==
  /\ srv.up => srv.startCount > 0
  /\ (RagCalled /\ last.rag.llm) => last.rag.seen.coll # <<>>

\* C8 (provider errors stay errors): when the retrieval or the LLM call fails,
\* get_rag_response ends by raising and /api/chat ends as a failure, with no
\* answer text; the fixed denial answer is returned only to a caller role
\* whose accessible set is empty.
C8_ProviderErrorsPropagate ==
  RagCalled =>
    /\ last.rag.failed # "none" =>
         /\ last.rag.outcome = "raised"
         /\ last.rag.answer = NoAnswer
         /\ last.via = "chat" => last.status = "500 Internal Server Error"
    /\ last.rag.answer.text = DENIAL =>
         AccessibleRoles(ROLE_ACCESS_MAPPING, last.user_role) = {}
    /\ last.rag.outcome = "returned" => last.rag.failed = "none"

\* an /api/chat request of an authenticated user whose LLM call failed after a
\* successful retrieval
C8_Witness ==
  /\ last.via = "chat"
  /\ last.rag.failed = "llm"
  /\ last.rag.context # <<>>
  /\ last.status = "500 Internal Server Error"

\* the content roles the policy names
PolicyContentRoles(m) == UNION {m[r] : r \in DOMAIN m}

ChunksOf(c) == split_documents(get_documents_from_path(c).docs)

\* C10 (replace, not append): when a run of ingest_data completes, the
\* collection holds exactly the chunks derived from the data root it walked,
\* each once, whatever the directory held before the run.
C10_ReplacesNotAppends ==
  ing.outcome = "complete" =>
    /\ Range(ing.after.coll) = Range(ChunksOf(ing.walked))
    /\ Len(ing.after.coll) = Len(ChunksOf(ing.walked))
    /\ \A c \in Range(ing.after.coll) :
         \E f \in ing.walked : c.source \in {<<f.name>>, FilePath(f)}

\* a completed run over a directory that held a good collection with a chunk
\* the new data root no longer yields (its file was removed or re-tagged)
C10_Witness ==
  /\ ing.outcome = "complete"
  /\ ing.before.state = "present"
  /\ \E c \in Range(ing.before.coll) : c \notin Range(ing.after.coll)
  /\ \E c \in Range(ing.before.coll) : c \in Range(ing.after.coll)

\* the stored chunks cut from the unit of text d
ChunksFrom(coll, d) == {i \in 1..Len(coll) : coll[i].text[1] = d.text}

\* C11 (metadata propagation): every chunk a completed run of ingest_data has
\* stored was cut from a loaded unit and carries exactly that unit's role and
\* source; a unit cut into N chunks has all N stored with its role and source;
\* no stored chunk has an empty role.
C11_MetadataPropagation ==
  ing.outcome = "complete" =>
    /\ \A c \in Range(ing.after.coll) :
         /\ c.role # ""
         /\ \E d \in Range(ing.loaded.docs) : d.text = c.text[1]
         /\ \A d \in Range(ing.loaded.docs) :
              d.text = c.text[1] => (c.role = d.role /\ c.source = d.source)
    /\ \A d \in Range(ing.loaded.docs) :
         Cardinality(ChunksFrom(ing.after.coll, d)) = Len(Windows(d.len, 0))

\* a completed run stored two chunks cut from one unit longer than a chunk
C11_Witness ==
  /\ ing.outcome = "complete"
  /\ \E d \in Range(ing.loaded.docs) :
       /\ d.len > ChunkSize
       /\ Cardinality(ChunksFrom(ing.after.coll, d)) >= 2
       /\ \A i \in ChunksFrom(ing.after.coll, d) :
            ing.after.coll[i].role = d.role /\ ing.after.coll[i].source = d.source

\* the submitted credentials are those of a user of MOCK_USERS
ValidCredentials(username, password) ==
  /\ username \in DOMAIN MOCK_USERS
  /\ MOCK_USERS[username].password = password

\* C12 (authentication gate): an /api/chat request reaches get_rag_response
\* only with a username of MOCK_USERS and that user's stored password, and then
\* with that user's stored role; any other request ends with 401 and performs
\* no retrieval and no generation.
C12_AuthenticationGate ==
  last.via = "chat" =>
    /\ RagCalled =>
         /\ ValidCredentials(last.username, last.password)
         /\ last.user_role = MOCK_USERS[last.username].role
    /\ ~ValidCredentials(last.username, last.password) =>
         /\ last.status = "401 Unauthorized"
         /\ ~RagCalled
         /\ ~last.rag.searched
         /\ ~last.rag.llm
         /\ last.rag.answer = NoAnswer

\* a request of a known user with a wrong password was refused while the
\* process was serving a collection that holds records
C12_Witness ==
  /\ last.via = "chat"
  /\ last.username \in DOMAIN MOCK_USERS
  /\ last.password # MOCK_USERS[last.username].password
  /\ last.status = "401 Unauthorized"
  /\ disk.state = "present" /\ disk.coll # <<>>

====
